---- MODULE Spec2Model ----
(***************************************************************************)
(* A model of duet.py: the outer driver (main), one DuetGame session        *)
(* (__init__, init_balls, move_balls, move_obstacles, game_loop, game_over) *)
(* and the collaborators it calls (Ball, ObstacleManager, Controller),      *)
(* whose sources are not in the tree and are modelled from the design      *)
(* document.                                                               *)
(*                                                                         *)
(* Angles are integers in units of pi/1122 rad, so that pi, pi/2 and the    *)
(* angular step 0.0224 rad (= 8 units) are all whole numbers.  Lengths are  *)
(* pixels.                                                                 *)
(***************************************************************************)
EXTENDS Integers, Sequences, FiniteSets

\* ------------------------------------------------------------- constants
BOARD_HEIGHT == 960
BOARD_WIDTH == 540
CIRCLE_RADIUS == 100
DIST_TO_BOTTOM == CIRCLE_RADIUS + 15
\* 0.0224 rad in units of pi/1122 rad
SPIN_STEP == 8
\* np.pi in units of pi/1122 rad
PI == 1122
TWO_PI == 2 * PI
NEW_OBS_INTERVAL == 140

\* Collaborator constants (Ball, Obstacle): fixed but not given in duet.py.
BALL_RADIUS == 10
OBSTACLE_SPEED == 6
OBSTACLE_HEIGHT == 40
SPAWN_Y == 0

\* Bounds of the exploration: ticks of one manual session, and ticks of one
\* controller session (whose steering is a function of the state).
MaxTicks == 170
MaxAutoTicks == 310

TickBound(m) == IF m = "man" THEN MaxTicks ELSE MaxAutoTicks

Modes == {"man", "contr", "ai"}
ArgModes == Modes \cup {"bad"}

\* ------------------------------------------------------------------ Ball
\* CIRCLE_RADIUS * cos(x), x in [0, pi/2] (Bhaskara's rational approximation).
QuarterCos(x) == (CIRCLE_RADIUS * (PI * PI - 4 * x * x)) \div (PI * PI + x * x)

\* CIRCLE_RADIUS * cos(theta) for any theta.
RCos(theta) ==
    LET t == theta % TWO_PI
        u == IF t > PI THEN TWO_PI - t ELSE t
    IN  IF 2 * u <= PI THEN QuarterCos(u) ELSE -QuarterCos(PI - u)

\* CIRCLE_RADIUS * sin(theta) = CIRCLE_RADIUS * cos(theta - pi/2).
RSin(theta) == RCos(theta - PI \div 2 + TWO_PI)

CenterX == BOARD_WIDTH \div 2
CenterY == BOARD_HEIGHT - DIST_TO_BOTTOM

\* Ball.position(): the cartesian position of a ball at angle theta.
position(theta) == <<CenterX + RCos(theta), CenterY + RSin(theta)>>

\* Ball.spin_left() / Ball.spin_right(): one angular step, modulo 2 pi.
spin_left(theta) == (theta - SPIN_STEP) % TWO_PI

spin_right(theta) == (theta + SPIN_STEP) % TWO_PI

Clamp(v, lo, hi) == IF v < lo THEN lo ELSE IF v > hi THEN hi ELSE v

\* Squared distance from point p to the rectangle of obstacle o.
Dist2(p, o) ==
    LET dx == p[1] - Clamp(p[1], o.x, o.x + o.w)
        dy == p[2] - Clamp(p[2], o.y, o.y + o.h)
    IN  dx * dx + dy * dy

\* Ball.collided_with(obstacle): circle-rectangle overlap, touching counts.
collided_with(theta, o) == Dist2(position(theta), o) <= BALL_RADIUS * BALL_RADIUS

\* -------------------------------------------------------------- Obstacle
Obstacle(x, w) == [x |-> x, y |-> SPAWN_Y, w |-> w, h |-> OBSTACLE_HEIGHT]

\* Obstacle.move()
move(o) == [o EXCEPT !.y = @ + OBSTACLE_SPEED]

out_of_frame(o) == o.y > BOARD_HEIGHT + o.h

\* ------------------------------------------------------- ObstacleManager
\* The layouts new_obstacle_set() draws from: a centre block between the
\* balls' starting columns, or a wide left block with a short right one.
Patterns ==
    << <<Obstacle(220, 100)>>,
       <<Obstacle(0, 200), Obstacle(440, 100)>> >>

PatternIds == 1..Len(Patterns)

\* ObstacleManager.new_obstacle_set(): append a new set at the top.
new_obstacle_set(om, pat) == Append(om, Patterns[pat])

oldest_obstacle_set(om) == Head(om)

oldest_out_of_frame(om) ==
    \A k \in 1..Len(Head(om)) : out_of_frame(Head(om)[k])

remove_obstacle_set(om) == Tail(om)

RECURSIVE Flatten(_)
Flatten(om) == IF om = <<>> THEN <<>> ELSE Head(om) \o Flatten(Tail(om))

get_obstacles(om) == Flatten(om)

\* ------------------------------------------------------------ Controller
\* The point p after one angular step in direction a (-1, 0, +1) about the
\* circle's centre (first order in the step of 0.0224 rad = 224/10000).
Project(p, a) ==
    LET rx == p[1] - CenterX
        ry == p[2] - CenterY
    IN  << p[1] - a * ((ry * SPIN_STEP * 28) \div 10000),
           p[2] + a * ((rx * SPIN_STEP * 28) \div 10000) >>

RECURSIVE MaxY(_)
MaxY(obs) ==
    IF Len(obs) = 1 THEN obs[1].y
    ELSE LET m == MaxY(Tail(obs)) IN IF obs[1].y >= m THEN obs[1].y ELSE m

\* The smaller of the two balls' squared clearances from the nearest
\* (lowest) obstacles after action a.
Margin(obstacles, red_position, blue_position, a) ==
    LET near == {k \in 1..Len(obstacles) : obstacles[k].y = MaxY(obstacles)}
        ds == {Dist2(Project(red_position, a), obstacles[k]) : k \in near}
              \cup {Dist2(Project(blue_position, a), obstacles[k]) : k \in near}
    IN  CHOOSE d \in ds : \A e \in ds : d <= e

\* Controller.get_controll: the action of largest margin, ties broken
\* no-op, then left, then right; no-op for an empty obstacle list.
get_controll(obstacles, red_position, blue_position) ==
    IF obstacles = <<>> THEN 0
    ELSE LET m0 == Margin(obstacles, red_position, blue_position, 0)
             ml == Margin(obstacles, red_position, blue_position, -1)
             mr == Margin(obstacles, red_position, blue_position, 1)
         IN  IF m0 >= ml /\ m0 >= mr THEN 0
             ELSE IF ml >= mr THEN -1 ELSE 1

\* ----------------------------------------------------------------- state
VARIABLES
    pc,                \* where the program is
    mode,              \* args.mode / self.mode
    constructed,       \* a DuetGame object exists
    blue_theta,        \* self.blue_ball's angle
    red_theta,         \* self.red_ball's angle
    obstacle_manager,  \* self.obstacle_manager: obstacle sets, oldest first
    i,                 \* game_loop's tick counter
    score,             \* game_loop's score
    game_over,         \* game_loop's game_over
    quit_game,         \* game_loop's quit_game
    main_quit,         \* main's quit_game
    ticks,             \* history: ticks executed in this session
    spawned,           \* history: new_obstacle_set() calls on this manager
    removed,           \* history: remove_obstacle_set() calls on this manager
    steered,           \* history: a ball was spun in this session
    restarted          \* history: this is not the process's first session

game == <<blue_theta, red_theta, obstacle_manager>>
locals == <<i, score, game_over, quit_game>>
history == <<ticks, spawned, removed, steered>>
vars == <<pc, mode, constructed, game, locals, main_quit, history, restarted>>

\* main, lines 244-249: before the arguments are parsed.
Init ==
    /\ pc = "parse"
    /\ mode \in ArgModes
    /\ constructed = FALSE
    /\ blue_theta = 0
    /\ red_theta = 0
    /\ obstacle_manager = <<>>
    /\ i = 0
    /\ score = 0
    /\ game_over = FALSE
    /\ quit_game = FALSE
    /\ main_quit = FALSE
    /\ ticks = 0
    /\ spawned = 0
    /\ removed = 0
    /\ steered = FALSE
    /\ restarted = FALSE

\* main, lines 244-247: argparse accepts only its choices.
ParseArgs ==
    /\ pc = "parse"
    /\ pc' = IF mode \in Modes THEN "main" ELSE "usage"
    /\ UNCHANGED <<mode, constructed, game, locals, main_quit, history, restarted>>

\* ------------------------------------------------------------- DuetGame
\* init_balls: the blue ball at pi, the red ball at 0.
init_balls == [blue |-> PI, red |-> 0]

\* __init__ without its line 45: the manager is left empty.
DuetGame_init_NoFirstSet(pat) ==
    [blue |-> init_balls.blue, red |-> init_balls.red, om |-> <<>>, spawned |-> 0]

\* __init__: the balls, and a manager holding one first obstacle set.
DuetGame_init(pat) ==
    [blue |-> init_balls.blue,
     red |-> init_balls.red,
     om |-> new_obstacle_set(<<>>, pat),
     spawned |-> 1]

\* Lines 96-97 run after the tick's obstacle movement instead of before it.
Decision_AfterMove(m, K_LEFT, K_RIGHT, om, blue, red) ==
    IF m = "man"
    THEN IF K_LEFT THEN -1 ELSE IF K_RIGHT THEN 1 ELSE 0
    ELSE get_controll(
             get_obstacles([s \in 1..Len(om) |->
                               [k \in 1..Len(om[s]) |-> move(om[s][k])]]),
             position(red), position(blue))

\* The steering decision of a tick: -1 left, +1 right, 0 none.
Decision(m, K_LEFT, K_RIGHT, om, blue, red) ==
    IF m = "man"
    THEN IF K_LEFT THEN -1 ELSE IF K_RIGHT THEN 1 ELSE 0
    ELSE get_controll(get_obstacles(om), position(red), position(blue))

\* move_balls with the red ball's spin_left() forgotten.
move_balls_BlueOnlyLeft(m, K_LEFT, K_RIGHT, om, blue, red) ==
    IF m \in {"man", "contr"}
    THEN LET c == Decision(m, K_LEFT, K_RIGHT, om, blue, red)
         IN  IF c = -1
             THEN [out |-> "ok", blue |-> spin_left(blue), red |-> red,
                   spun |-> TRUE]
             ELSE IF c = 1
             THEN [out |-> "ok", blue |-> spin_right(blue), red |-> spin_right(red),
                   spun |-> TRUE]
             ELSE [out |-> "ok", blue |-> blue, red |-> red, spun |-> FALSE]
    ELSE IF m = "ai"
    THEN [out |-> "exited", blue |-> blue, red |-> red, spun |-> FALSE]
    ELSE [out |-> "value_error", blue |-> blue, red |-> red, spun |-> FALSE]

\* move_balls with the two directions swapped in both branches.
move_balls_Swapped(m, K_LEFT, K_RIGHT, om, blue, red) ==
    IF m \in {"man", "contr"}
    THEN LET c == Decision(m, K_LEFT, K_RIGHT, om, blue, red)
         IN  IF c = -1
             THEN [out |-> "ok", blue |-> spin_right(blue), red |-> spin_right(red),
                   spun |-> TRUE]
             ELSE IF c = 1
             THEN [out |-> "ok", blue |-> spin_left(blue), red |-> spin_left(red),
                   spun |-> TRUE]
             ELSE [out |-> "ok", blue |-> blue, red |-> red, spun |-> FALSE]
    ELSE IF m = "ai"
    THEN [out |-> "exited", blue |-> blue, red |-> red, spun |-> FALSE]
    ELSE [out |-> "value_error", blue |-> blue, red |-> red, spun |-> FALSE]

\* move_balls without its final else: an unknown mode steers nothing and
\* the tick goes on.
move_balls_NoElse(m, K_LEFT, K_RIGHT, om, blue, red) ==
    IF m \in {"man", "contr"}
    THEN LET c == Decision(m, K_LEFT, K_RIGHT, om, blue, red)
         IN  IF c = -1
             THEN [out |-> "ok", blue |-> spin_left(blue), red |-> spin_left(red),
                   spun |-> TRUE]
             ELSE IF c = 1
             THEN [out |-> "ok", blue |-> spin_right(blue), red |-> spin_right(red),
                   spun |-> TRUE]
             ELSE [out |-> "ok", blue |-> blue, red |-> red, spun |-> FALSE]
    ELSE IF m = "ai"
    THEN [out |-> "exited", blue |-> blue, red |-> red, spun |-> FALSE]
    ELSE [out |-> "ok", blue |-> blue, red |-> red, spun |-> FALSE]

\* move_balls: both balls spun by the decision, or the mode's failure
\* (exit() for "ai", ValueError for any other mode).
move_balls(m, K_LEFT, K_RIGHT, om, blue, red) ==
    IF m \in {"man", "contr"}
    THEN LET c == Decision(m, K_LEFT, K_RIGHT, om, blue, red)
         IN  IF c = -1
             THEN [out |-> "ok", blue |-> spin_left(blue), red |-> spin_left(red),
                   spun |-> TRUE]
             ELSE IF c = 1
             THEN [out |-> "ok", blue |-> spin_right(blue), red |-> spin_right(red),
                   spun |-> TRUE]
             ELSE [out |-> "ok", blue |-> blue, red |-> red, spun |-> FALSE]
    ELSE IF m = "ai"
    THEN [out |-> "exited", blue |-> blue, red |-> red, spun |-> FALSE]
    ELSE [out |-> "value_error", blue |-> blue, red |-> red, spun |-> FALSE]

\* move_obstacles with the outer loop lost: only the oldest set moves.
move_obstacles_OldestOnly(om) ==
    [s \in 1..Len(om) |->
        IF s = 1 THEN [k \in 1..Len(om[s]) |-> move(om[s][k])] ELSE om[s]]

\* move_obstacles with the inner loop lost: only each set's first obstacle moves.
move_obstacles_FirstObstacleOnly(om) ==
    [s \in 1..Len(om) |->
        [k \in 1..Len(om[s]) |-> IF k = 1 THEN move(om[s][k]) ELSE om[s][k]]]

\* move_obstacles: every obstacle of every set moves one step.
move_obstacles(om) ==
    [s \in 1..Len(om) |-> [k \in 1..Len(om[s]) |-> move(om[s][k])]]

\* Either ball touches an obstacle of the set.
Collision(blue, red, obstacle_set) ==
    \E k \in 1..Len(obstacle_set) :
        collided_with(blue, obstacle_set[k]) \/ collided_with(red, obstacle_set[k])

\* The collision test placed before the tick's movement steps.
CollisionTest_BeforeMoves(before, after) ==
    Collision(before.blue, before.red, oldest_obstacle_set(before.om))

\* game_loop, lines 219-225: the test comes last in the tick, so it reads the
\* balls and the oldest set as the steps above it have left them (after),
\* not as the tick found them (before).
CollisionTest(before, after) ==
    Collision(after.blue, after.red, oldest_obstacle_set(after.om))

\* Lines 202-205 with the score counted outside the if.
Expire_ScoreEveryTick(om, sc) ==
    IF oldest_out_of_frame(om)
    THEN [om |-> remove_obstacle_set(om), score |-> sc + 1, removed |-> 1]
    ELSE [om |-> om, score |-> sc + 1, removed |-> 0]

\* Lines 202-205 asking one movement step ahead: the set goes a tick early.
Expire_OneTickEarly(om, sc) ==
    IF oldest_out_of_frame(move_obstacles(om))
    THEN [om |-> remove_obstacle_set(om), score |-> sc + 1, removed |-> 1]
    ELSE [om |-> om, score |-> sc, removed |-> 0]

\* game_loop, lines 202-205: expire the oldest set if it is out of frame.
Expire(om, sc) ==
    IF oldest_out_of_frame(om)
    THEN [om |-> remove_obstacle_set(om), score |-> sc + 1, removed |-> 1]
    ELSE [om |-> om, score |-> sc, removed |-> 0]

\* Line 208 testing the counter one tick early.
SpawnDue_OneEarly(n) == (n + 1) % NEW_OBS_INTERVAL = 0

\* Line 208 without its "== 0": true whenever the remainder is not zero.
SpawnDue_Truthy(n) == n % NEW_OBS_INTERVAL # 0

\* game_loop, lines 207-209: spawn when the counter is a multiple.
SpawnDue(n) == n % NEW_OBS_INTERVAL = 0

\* game_loop, lines 233-234
NextI(n) == (n + 1) % NEW_OBS_INTERVAL

\* Lines 188-191 with the counter started at 0.
LoopStart_FromZero ==
    [quit_game |-> FALSE, game_over |-> FALSE, i |-> 0, score |-> 0]

\* game_loop, lines 188-191: the loop's locals.
LoopStart ==
    [quit_game |-> FALSE, game_over |-> FALSE, i |-> 1, score |-> 0]

\* Line 192 looking at quit_game only.
LoopCondition_QuitOnly(go, q) == ~q

\* game_loop, line 192: the while condition.
LoopCondition(go, q) == ~(go \/ q)

\* Line 250 ignoring the session's answer.
MainCondition_Always(q) == TRUE

\* main, line 250: the while condition.
MainCondition(q) == ~q

\* main line 251 and game_loop lines 188-191: a new session starts.
NewGame ==
    /\ pc = "main"
    /\ MainCondition(main_quit)
    /\ \E pat \in PatternIds :
         LET g == DuetGame_init(pat)
         IN  /\ blue_theta' = g.blue
             /\ red_theta' = g.red
             /\ obstacle_manager' = g.om
             /\ spawned' = g.spawned
    /\ constructed' = TRUE
    /\ quit_game' = LoopStart.quit_game
    /\ game_over' = LoopStart.game_over
    /\ i' = LoopStart.i
    /\ score' = LoopStart.score
    /\ ticks' = 0
    /\ removed' = 0
    /\ steered' = FALSE
    /\ restarted' = constructed
    /\ pc' = "loop"
    /\ UNCHANGED <<mode, main_quit>>

\* game_loop, lines 192-234: one whole iteration of the loop.
Tick ==
    /\ pc = "loop"
    /\ LoopCondition(game_over, quit_game)
    /\ ticks < TickBound(mode)
    /\ \E K_LEFT \in (IF mode = "man" THEN BOOLEAN ELSE {FALSE}),
          K_RIGHT \in (IF mode = "man" THEN BOOLEAN ELSE {FALSE}),
          closed \in BOOLEAN,
          pat \in (IF SpawnDue(i) THEN PatternIds ELSE {1}) :
         LET mb == move_balls(mode, K_LEFT, K_RIGHT, obstacle_manager,
                              blue_theta, red_theta)
         IN  IF mb.out # "ok"
             THEN /\ pc' = mb.out
                  /\ UNCHANGED <<game, locals, history>>
             ELSE LET om1 == move_obstacles(obstacle_manager)
                  IN  IF om1 = <<>>
                      THEN \* oldest_out_of_frame() on an empty manager
                           /\ pc' = "empty_error"
                           /\ blue_theta' = mb.blue
                           /\ red_theta' = mb.red
                           /\ obstacle_manager' = om1
                           /\ steered' = (steered \/ mb.spun)
                           /\ UNCHANGED <<locals, ticks, spawned, removed>>
                      ELSE LET ex == Expire(om1, score)
                               om3 == IF SpawnDue(i)
                                      THEN new_obstacle_set(ex.om, pat)
                                      ELSE ex.om
                           IN  /\ blue_theta' = mb.blue
                               /\ red_theta' = mb.red
                               /\ obstacle_manager' = om3
                               /\ steered' = (steered \/ mb.spun)
                               /\ score' = ex.score
                               /\ removed' = removed + ex.removed
                               /\ spawned' = spawned + (IF SpawnDue(i) THEN 1 ELSE 0)
                               /\ IF om3 = <<>>
                                  THEN \* oldest_obstacle_set() on an empty manager
                                       /\ pc' = "empty_error"
                                       /\ UNCHANGED <<i, game_over, quit_game, ticks>>
                                  ELSE /\ pc' = "loop"
                                       /\ game_over' =
                                            CollisionTest(
                                              [blue |-> blue_theta, red |-> red_theta,
                                               om |-> obstacle_manager],
                                              [blue |-> mb.blue, red |-> mb.red,
                                               om |-> om3])
                                       /\ quit_game' = closed
                                       /\ i' = NextI(i)
                                       /\ ticks' = ticks + 1
    /\ UNCHANGED <<mode, constructed, main_quit, restarted>>

\* game_over(): the prompt ends on ESC, RETURN or a closed window; it
\* returns True for ESC or a closed window.
game_over_prompt(K_ESCAPE, K_RETURN, closed) == K_ESCAPE \/ closed

\* game_loop, lines 236-239, and main line 252: the loop has ended and the
\* session's answer is handed to main.
GameLoopReturn ==
    /\ pc = "loop"
    /\ ~LoopCondition(game_over, quit_game)
    /\ \E K_ESCAPE \in BOOLEAN, K_RETURN \in BOOLEAN, closed \in BOOLEAN :
         /\ K_ESCAPE \/ K_RETURN \/ closed
         /\ main_quit' = IF game_over
                         THEN game_over_prompt(K_ESCAPE, K_RETURN, closed)
                         ELSE quit_game
    /\ pc' = "main"
    /\ UNCHANGED <<mode, constructed, game, locals, history, restarted>>

\* main, lines 250 and 254: the driver stops once a session asked to quit;
\* pygame.quit() and the end of the process leave no session behind.
MainExit ==
    /\ pc = "main"
    /\ ~MainCondition(main_quit)
    /\ pc' = "done"
    /\ constructed' = FALSE
    /\ blue_theta' = 0
    /\ red_theta' = 0
    /\ obstacle_manager' = <<>>
    /\ i' = 0
    /\ score' = 0
    /\ game_over' = FALSE
    /\ quit_game' = FALSE
    /\ ticks' = 0
    /\ spawned' = 0
    /\ removed' = 0
    /\ steered' = FALSE
    /\ UNCHANGED <<mode, main_quit, restarted>>

Next == ParseArgs \/ NewGame \/ Tick \/ GameLoopReturn \/ MainExit

Spec == Init /\ [][Next]_vars

\* DuetGame used as a class, lines 36-40 and 183: a caller that builds
\* sessions itself, the way main's loop does (lines 249-252), without
\* argparse in front of the constructor.
InitDirect ==
    /\ pc = "main"
    /\ mode \in ArgModes
    /\ constructed = FALSE
    /\ blue_theta = 0
    /\ red_theta = 0
    /\ obstacle_manager = <<>>
    /\ i = 0
    /\ score = 0
    /\ game_over = FALSE
    /\ quit_game = FALSE
    /\ main_quit = FALSE
    /\ ticks = 0
    /\ spawned = 0
    /\ removed = 0
    /\ steered = FALSE
    /\ restarted = FALSE

NextDirect == NewGame \/ Tick \/ GameLoopReturn \/ MainExit

SpecDirect == InitDirect /\ [][NextDirect]_vars

TypeOK ==
    /\ pc \in {"parse", "usage", "main", "loop", "done", "exited",
              "value_error", "empty_error"}
    /\ mode \in ArgModes
    /\ blue_theta \in 0..(TWO_PI - 1)
    /\ red_theta \in 0..(TWO_PI - 1)
    /\ i \in 0..(NEW_OBS_INTERVAL - 1)
    /\ score \in Nat

\* ---------------------------------------------------------------- claims
\* A step that is one completed tick of game_loop.
TickStep == pc = "loop" /\ pc' = "loop" /\ ticks' = ticks + 1

\* C1: whenever a session exists, after any number of ticks and any steering
\* (manual or controller), the blue ball is exactly pi ahead of the red ball,
\* modulo 2 pi.
SyncInvariant ==
    constructed => (blue_theta - red_theta) % TWO_PI = PI

\* C1 witness: a controller session, a hundred ticks in, whose steering has
\* taken one ball's angle across the wrap at 2 pi and not the other's.
SyncWitness ==
    /\ pc = "loop"
    /\ mode = "contr"
    /\ steered
    /\ ticks >= 100
    /\ blue_theta < red_theta

\* C2: numbering ticks from 1, tick k calls new_obstacle_set() exactly once
\* when k is a positive multiple of NEW_OBS_INTERVAL and not at all
\* otherwise, whatever has been removed.
SpawnCadence ==
    [][TickStep =>
         spawned' - spawned =
             IF ticks' % NEW_OBS_INTERVAL = 0 THEN 1 ELSE 0]_vars

\* C2 witness: tick 280 has run, the second spawn of the loop has happened,
\* and a set was removed in between.
SpawnCadenceWitness ==
    /\ pc = "loop"
    /\ ticks = 2 * NEW_OBS_INTERVAL
    /\ spawned = 3
    /\ removed = 1

\* C3: score starts at 0 and always equals the number of sets removed in the
\* session (the sets spawned and no longer held); a tick changes it by exactly
\* the number of removals of that tick, 0 or 1, and it never decreases.
ScoreCountsRemovals ==
    /\ [](constructed =>
            /\ score = removed
            /\ Len(obstacle_manager) = spawned - score)
    /\ [][TickStep =>
            /\ removed' - removed \in {0, 1}
            /\ score' - score = removed' - removed
            /\ Len(obstacle_manager') =
                 Len(obstacle_manager) - (score' - score) + (spawned' - spawned)]_vars
    /\ [][pc = "main" /\ pc' = "loop" => score' = 0]_vars

\* C3 witness: a running session whose second set has been removed.
ScoreWitness ==
    /\ pc = "loop"
    /\ score = 2
    /\ removed = 2

\* C4 as stated: 140 ticks without steering after a start from an empty
\* manager leave exactly one spawned set, held by the manager, and score 0.
ScenarioFromEmptyManager ==
    (pc = "loop" /\ ticks = NEW_OBS_INTERVAL /\ ~steered) =>
        /\ spawned = 1
        /\ Len(obstacle_manager) = 1
        /\ score = 0

\* C4 amended: a session starts with blue at pi, red at 0 and a manager that
\* already holds the constructor's set; while it runs without steering, no
\* further set is spawned before tick 140, tick 140 spawns exactly one (two
\* spawned in all, both held, the new one not yet moved) and score is 0.
ScenarioFromFirstSet ==
    (pc = "loop" /\ ~steered /\ ticks <= NEW_OBS_INTERVAL) =>
        /\ blue_theta = PI
        /\ red_theta = 0
        /\ score = 0
        /\ ticks < NEW_OBS_INTERVAL =>
             spawned = 1 /\ Len(obstacle_manager) = 1
        /\ ticks = NEW_OBS_INTERVAL =>
             /\ spawned = 2
             /\ Len(obstacle_manager) = 2
             /\ \A k \in 1..Len(obstacle_manager[2]) :
                  obstacle_manager[2][k].y = SPAWN_Y

\* C4 witness: tick 140 has run without steering and the session goes on.
ScenarioWitness ==
    /\ pc = "loop"
    /\ ticks = NEW_OBS_INTERVAL
    /\ ~steered
    /\ ~game_over
    /\ ~quit_game

\* C5: the manager is never empty where game_loop queries or pops it: no
\* tick fails on an empty manager, and it holds a set whenever a session
\* is between ticks.
ManagerNeverEmpty ==
    /\ pc # "empty_error"
    /\ (constructed /\ pc \in {"loop", "main"}) => obstacle_manager # <<>>

\* C5 witness: a set has just been removed and exactly one set is left.
ManagerWitness ==
    /\ pc = "loop"
    /\ removed = 1
    /\ Len(obstacle_manager) = 1

\* The sets of om that a tick removing d sets keeps, each moved one step.
KeptAndMoved(om, d) ==
    [s \in 1..(Len(om) - d) |->
        [k \in 1..Len(om[s + d]) |->
            [om[s + d][k] EXCEPT !.y = @ + OBSTACLE_SPEED]]]

\* C6: a tick rotates the balls, moves every obstacle, expires, spawns, and
\* only then tests for collision: after a tick every set kept has moved one
\* step, the oldest set is not out of frame, a set spawned in the tick has
\* not moved, and game_over is the collision of the balls as rotated in this
\* tick with the set that is oldest after this tick's expiry and spawn.
TickOrder ==
    [][TickStep =>
         /\ SubSeq(obstacle_manager', 1, Len(obstacle_manager) - (removed' - removed))
              = KeptAndMoved(obstacle_manager, removed' - removed)
         /\ ~(\A k \in 1..Len(obstacle_manager'[1]) :
                obstacle_manager'[1][k].y > BOARD_HEIGHT + obstacle_manager'[1][k].h)
         /\ spawned' # spawned =>
              \A k \in 1..Len(obstacle_manager'[Len(obstacle_manager')]) :
                  obstacle_manager'[Len(obstacle_manager')][k].y = SPAWN_Y
         /\ game_over' =
              \E k \in 1..Len(obstacle_manager'[1]) :
                  \/ collided_with(blue_theta', obstacle_manager'[1][k])
                  \/ collided_with(red_theta', obstacle_manager'[1][k])]_vars

\* C6 witness: a collision found in a tick after steering, with a younger
\* set also held.
TickOrderWitness ==
    /\ pc = "loop"
    /\ game_over
    /\ steered
    /\ Len(obstacle_manager) = 2

\* C7: a collision of either ball with the oldest set ends the session in
\* that tick: game_over is set exactly in such a tick, the only step left to
\* the session is its return to main, and nothing of the session (angles,
\* obstacles, sets, score, counters) changes afterwards.
CollisionIsTerminal ==
    /\ [][TickStep =>
            (game_over' <=>
               \E k \in 1..Len(obstacle_manager'[1]) :
                   \/ collided_with(blue_theta', obstacle_manager'[1][k])
                   \/ collided_with(red_theta', obstacle_manager'[1][k]))]_vars
    /\ [][(~game_over /\ game_over') => TickStep]_vars
    /\ [][(pc = "loop" /\ game_over) =>
            (pc' = "main" /\ UNCHANGED <<game, locals, history>>)]_vars
    /\ [][(pc = "main" /\ game_over) =>
            \/ pc' = "done"
            \/ pc' = "loop" /\ ticks' = 0]_vars

\* C7 witness: a session that collided has handed its answer to main.
TerminalWitness ==
    /\ pc = "main"
    /\ game_over
    /\ ~quit_game
    /\ ticks > 0

\* C8 as stated: with a mode other than manual or controller no session is
\* built: no balls, no manager, no spawned set, no tick of game_loop.
ConfigFailsAtConstruction ==
    mode \notin {"man", "contr"} =>
        /\ ~constructed
        /\ spawned = 0
        /\ pc \notin {"loop", "exited", "value_error"}

\* C9 as stated: once a tick has seen the window close, no further tick runs
\* and game_loop hands quit-requested = true to main, collision or not.
QuitReturnsTrue ==
    [][(pc = "loop" /\ quit_game) => (pc' = "main" /\ main_quit')]_vars

\* A session as game_loop finds it: fresh balls, one unmoved set, fresh locals.
Fresh ==
    /\ score = 0
    /\ i = 1
    /\ blue_theta = PI
    /\ red_theta = 0
    /\ Len(obstacle_manager) = 1
    /\ \A k \in 1..Len(obstacle_manager[1]) : obstacle_manager[1][k].y = SPAWN_Y
    /\ ~game_over
    /\ ~quit_game
    /\ ticks = 0
    /\ removed = 0

\* C10: main starts a session exactly when the previous answer was "do not
\* quit" (or there was none yet), stops for good once a session answers
\* "quit", and every session it starts is fresh, whatever the previous one
\* left behind.
RestartIsFresh ==
    /\ [][pc = "main" =>
            IF main_quit THEN pc' = "done" ELSE pc' = "loop" /\ Fresh']_vars
    /\ [][(pc # "loop" /\ pc' = "loop") => (pc = "main" /\ ~main_quit)]_vars
    /\ [][pc # "done"]_vars
    /\ [](pc = "done" => main_quit)

\* C10 witness: a restarted session has run its first tick.
RestartWitness ==
    /\ restarted
    /\ pc = "loop"
    /\ ticks = 1

\* The y of every obstacle of an obstacle set, as a set of numbers.
SetYs(obstacle_set) == {obstacle_set[k].y : k \in 1..Len(obstacle_set)}

\* C11: the sets held are in spawn order, oldest first and lowest on the
\* screen: of two sets held together, every obstacle of the earlier one has
\* a strictly greater y than every obstacle of the later one; and a tick
\* keeps the vertical distance between any two sets it keeps.
SpawnOrder ==
    /\ [](constructed =>
            \A s, t \in 1..Len(obstacle_manager) :
                s < t =>
                    \A a \in SetYs(obstacle_manager[s]), b \in SetYs(obstacle_manager[t]) :
                        a > b)
    /\ [][TickStep =>
            LET d == removed' - removed
            IN  \A s, t \in (1 + d)..Len(obstacle_manager) :
                    \A k \in 1..Len(obstacle_manager[s]), l \in 1..Len(obstacle_manager[t]) :
                        obstacle_manager'[s - d][k].y - obstacle_manager'[t - d][l].y
                            = obstacle_manager[s][k].y - obstacle_manager[t][l].y]_vars

\* C11 witness: two sets are held after the oldest one of the session has
\* been popped and a new one appended.
SpawnOrderWitness ==
    /\ pc = "loop"
    /\ removed = 1
    /\ spawned = 3
    /\ Len(obstacle_manager) = 2
    /\ ticks > 2 * NEW_OBS_INTERVAL

\* L: the movement steps that take an obstacle from its spawn y to out of
\* frame (the least k with SPAWN_Y + k * OBSTACLE_SPEED beyond the limit).
TicksToLeave ==
    (BOARD_HEIGHT + OBSTACLE_HEIGHT - SPAWN_Y) \div OBSTACLE_SPEED + 1

\* C12: however long the session runs, the manager holds at most
\* ceil(L / NEW_OBS_INTERVAL) + 1 sets.
HeldSetsBounded ==
    constructed =>
        Len(obstacle_manager) <=
            (TicksToLeave + NEW_OBS_INTERVAL - 1) \div NEW_OBS_INTERVAL + 1

\* C12 witness: late in a session, one tick before its second removal, the
\* manager holds the most sets the cadence ever lets it hold.
HeldSetsWitness ==
    /\ pc = "loop"
    /\ ticks = TicksToLeave + NEW_OBS_INTERVAL - 1
    /\ removed = 1
    /\ Len(obstacle_manager) = 2

\* Every obstacle of the obstacle set is out of frame.
SetOut(obstacle_set) ==
    \A k \in 1..Len(obstacle_set) :
        obstacle_set[k].y > BOARD_HEIGHT + obstacle_set[k].h

\* C13: a tick removes at most one set, and removes the oldest set exactly
\* when this tick's movement has put it out of frame: the set removed was
\* not out of frame before the tick, a set not out of frame is not removed,
\* and no set held after a tick (so no set a collision test reads) is out
\* of frame.
RemovalOnlyWhenOut ==
    [][TickStep =>
         LET d == removed' - removed
             oldest == KeptAndMoved(obstacle_manager, 0)[1]
         IN  /\ d \in {0, 1}
             /\ d = 1 <=> SetOut(oldest)
             /\ d = 1 => ~SetOut(obstacle_manager[1])
             /\ d = 1 =>
                  Len(obstacle_manager') =
                      Len(obstacle_manager) - 1 + (spawned' - spawned)
             /\ \A s \in 1..Len(obstacle_manager') :
                  ~SetOut(obstacle_manager'[s])]_vars

\* C13 witness: the tick in which the session's first set left the frame
\* has just removed it.
RemovalWitness ==
    /\ pc = "loop"
    /\ removed = 1
    /\ ticks = TicksToLeave
    /\ ~game_over

\* The tick in which the set now at place s of the manager was spawned (0
\* for the constructor's set): sets are spawned every NEW_OBS_INTERVAL
\* ticks and leave from the front.
SpawnTick(s) == NEW_OBS_INTERVAL * (removed + s - 1)

\* C14: every obstacle held has moved exactly once in each tick after the
\* tick that spawned it and not in that tick, so its y is its spawn y plus
\* the scroll speed times the ticks run since its spawn; and every tick
\* strictly increases the y of every obstacle it keeps.
MovedOncePerTick ==
    /\ [](constructed =>
            \A s \in 1..Len(obstacle_manager) :
                \A k \in 1..Len(obstacle_manager[s]) :
                    obstacle_manager[s][k].y =
                        SPAWN_Y + OBSTACLE_SPEED * (ticks - SpawnTick(s)))
    /\ [][TickStep =>
            LET d == removed' - removed
            IN  \A s \in (1 + d)..Len(obstacle_manager) :
                    \A k \in 1..Len(obstacle_manager[s]) :
                        /\ obstacle_manager'[s - d][k].y > obstacle_manager[s][k].y
                        /\ obstacle_manager'[s - d][k].y =
                             obstacle_manager[s][k].y + OBSTACLE_SPEED]_vars

\* C14 witness: the tick after a spawn; the set spawned in tick 140 has now
\* made its first move, beside an older set of two obstacles.
MovedWitness ==
    /\ pc = "loop"
    /\ ticks = NEW_OBS_INTERVAL + 1
    /\ Len(obstacle_manager) = 2
    /\ Len(obstacle_manager[1]) = 2
    /\ obstacle_manager[2][1].y = SPAWN_Y + OBSTACLE_SPEED

\* An angle after steering action a: -1 left, +1 right, anything else none.
Turn(theta, a) ==
    IF a = -1 THEN spin_left(theta) ELSE IF a = 1 THEN spin_right(theta) ELSE theta

\* A whole loop iteration of a controller session.
ControllerTick == TickStep /\ mode = "contr"

\* C16: in controller mode move_balls applies the controller's decision to
\* both balls alike: both are spun left iff the decision is -1, both are spun
\* right iff it is +1, and otherwise neither angle changes; it changes nothing
\* else: after the tick the obstacles, the set sequence, the score and the
\* tick counter are what the rest of the tick alone makes of their values
\* from before move_balls.
DecisionAppliedToBoth ==
    [][ControllerTick =>
        LET c == Decision(mode, FALSE, FALSE, obstacle_manager, blue_theta, red_theta)
            d == removed' - removed
            kept == KeptAndMoved(obstacle_manager, d)
        IN  /\ (c = -1) <=> (/\ blue_theta' = spin_left(blue_theta)
                             /\ red_theta' = spin_left(red_theta))
            /\ (c = 1) <=> (/\ blue_theta' = spin_right(blue_theta)
                            /\ red_theta' = spin_right(red_theta))
            /\ (c \notin {-1, 1}) <=> (/\ blue_theta' = blue_theta
                                       /\ red_theta' = red_theta)
            /\ blue_theta' = Turn(blue_theta, c)
            /\ red_theta' = Turn(red_theta, c)
            /\ Len(obstacle_manager') = Len(kept) + (spawned' - spawned)
            /\ \A s \in 1..Len(kept) : obstacle_manager'[s] = kept[s]
            /\ score' = score + d
            /\ i' = NextI(i)
    ]_vars

\* A controller session in which the controller has steered the balls off
\* their starting angles.
DecisionAppliedWitness ==
    /\ pc = "loop"
    /\ mode = "contr"
    /\ steered
    /\ blue_theta # init_balls.blue
    /\ red_theta # init_balls.red

\* What the controller answers to the obstacles of om and the two balls.
Answer(om, blue, red) ==
    get_controll(get_obstacles(om), position(red), position(blue))

\* C17: in controller mode the decision a tick applies is the controller's
\* answer to the state the previous tick left: the ball positions before
\* this tick's rotation and the obstacles of every held set before this
\* tick's movement, expiry and spawn, so a set this tick removes is still
\* seen and a set this tick spawns is not.
DecisionFromPreTickState ==
    [][ControllerTick =>
        LET c == Answer(obstacle_manager, blue_theta, red_theta)
        IN  /\ blue_theta' = Turn(blue_theta, c)
            /\ red_theta' = Turn(red_theta, c)
            /\ steered' = (steered \/ c \in {-1, 1})
    ]_vars

\* A controller state whose answer depends on the moment it is asked: the
\* obstacles as they stand and the obstacles after the coming tick's
\* movement do not give the same decision.
DecisionFromPreTickWitness ==
    /\ pc = "loop"
    /\ mode = "contr"
    /\ ~game_over
    /\ ~quit_game
    /\ ticks < MaxAutoTicks
    /\ Answer(obstacle_manager, blue_theta, red_theta)
         # Answer(move_obstacles(obstacle_manager), blue_theta, red_theta)

\* C18: for a mode outside {man, contr, ai} the first tick of game_loop
\* raises ValueError from move_balls before anything of the session has
\* changed: no tick ever completes, and when the error is raised the balls
\* are at their starting angles, the manager holds the constructor's one
\* set, unmoved, nothing has been removed or spawned since, the score
\* is 0 and the tick counter is 1.
InvalidModeFailsFirstTick ==
    /\ [](pc = "value_error" =>
            /\ mode \notin Modes
            /\ constructed
            /\ Fresh
            /\ spawned = 1
            /\ ~steered)
    /\ [](mode \notin Modes => ticks = 0 /\ pc \in {"main", "loop", "value_error"})
    /\ [][(pc = "loop" /\ mode \notin Modes) =>
            (pc' = "value_error" /\ UNCHANGED <<game, locals, history>>)]_vars

\* A session built with an unknown mode has raised ValueError.
InvalidModeWitness ==
    /\ pc = "value_error"
    /\ mode = "bad"
    /\ constructed
    /\ Len(obstacle_manager) = 1
====
